---- MODULE Spec2Model ----
(***************************************************************************)
(* Model of amaranth_analogue/packaging.py: the analogue.toml schema and   *)
(* its validation (Metadata.__init__), the manifests derived from the      *)
(* validated document (Metadata.*_json), the ordered entries generated by  *)
(* Package.files(), and their materialisation by Package.write_files and   *)
(* Package.write_zip_file.                                                 *)
(*                                                                         *)
(* Representation.  A Python str is a sequence of one-character strings,   *)
(* so that lengths, patterns, f-string concatenation and "/"-separated     *)
(* paths are computed and not assumed.  A TOML table / Python dict with    *)
(* string keys is a record; "key in d" is  key \in DOMAIN d.  bytes is a   *)
(* sequence of integers 0..255.                                            *)
(***************************************************************************)
EXTENDS Integers, Sequences, FiniteSets, TLC

VARIABLES
    doc,          \* Metadata._data: the parsed analogue.toml
    core_names,   \* Metadata.core_names
    cores,        \* Package.cores: ordered dict name -> bytes, as a sequence of [name, data]
    clock,        \* the wall clock, in days since the first day of the run
    phase,        \* "start" | "failed" (ValidationError raised) | "metadata" | "package"
    op,           \* the running method: "idle" | "write_files" | "write_zip_file"
    pos,          \* number of entries the running files() generator has yielded
    yielded,      \* the entries yielded by the running (or last) traversal of files()
    tree,         \* the loose tree under root: set of <<resolved path, payload>>
    archive,      \* the zip file: [state, name, members]
    done          \* the methods that have returned

vars == <<doc, core_names, cores, clock, phase, op, pos, yielded, tree, archive, done>>

----------------------------------------------------------------------------
(* Bounds of the model. *)

\* The wall clock may pass midnight this many times during a run.
MaxDays == 1

\* At most this many core images, and this many core names, are supplied.
MaxCores == 2

----------------------------------------------------------------------------
(* Strings. *)

Lower == {"a","b","c","d","e","f","g","h","i","j","k","l","m",
          "n","o","p","q","r","s","t","u","v","w","x","y","z"}
Digits == <<"0","1","2","3","4","5","6","7","8","9">>
DigitSet == {Digits[i] : i \in 1..10}
NL == "\n"

RECURSIVE Repeat(_, _)
Repeat(s, n) == IF n = 0 THEN <<>> ELSE s \o Repeat(s, n - 1)

RECURSIVE StrInt(_)
\* str(n) for n >= 0, as the f-string "core_{core_id}" formats it
StrInt(n) ==
    IF n < 10 THEN <<Digits[n + 1]>>
    ELSE StrInt(n \div 10) \o <<Digits[(n % 10) + 1]>>

S_Platforms == <<"P","l","a","t","f","o","r","m","s">>
S_Cores == <<"C","o","r","e","s">>
S_json == <<"j","s","o","n">>
S_core == <<"c","o","r","e">>
S_info_txt == <<"i","n","f","o",".","t","x","t">>
S_video == <<"v","i","d","e","o">>
S_audio == <<"a","u","d","i","o">>
S_input == <<"i","n","p","u","t">>
S_interact == <<"i","n","t","e","r","a","c","t">>
S_data == <<"d","a","t","a">>
S_variants == <<"v","a","r","i","a","n","t","s">>
S_rbf_r == <<"r","b","f","_","r">>
S_zip == <<"z","i","p">>
S_APF_VER_1 == <<"A","P","F","_","V","E","R","_","1">>
S_Analogue_Pocket == <<"A","n","a","l","o","g","u","e"," ","P","o","c","k","e","t">>
S_1_1 == <<"1",".","1">>

----------------------------------------------------------------------------
(* ANALOGUE_TOML_SCHEMA and jsonschema.validate.                           *)
(* The documents of the model are well typed (a string where the schema    *)
(* says string, an integer where it says integer): the "type" keywords     *)
(* are not what is varied.  "format" (uri, date) is an annotation for      *)
(* jsonschema.validate, which is called without a format checker.          *)

Has(d, k) == k \in DOMAIN d

\* The object rule: "required" and "additionalProperties": False.
ClosedObject(d, required, properties) ==
    /\ required \subseteq DOMAIN d
    /\ DOMAIN d \subseteq properties

\* "pattern": "^[a-z0-9][a-z0-9_]*$", searched by re.search: "$" also
\* matches just before a final newline.
IdBody(s) ==
    /\ Len(s) >= 1
    /\ s[1] \in Lower \cup DigitSet
    /\ \A i \in 2..Len(s) : s[i] \in Lower \cup DigitSet \cup {"_"}

MatchesIdPattern(s) ==
    \/ IdBody(s)
    \/ Len(s) >= 2 /\ s[Len(s)] = NL /\ IdBody(SubSeq(s, 1, Len(s) - 1))

\* "pattern": "^(\d+).(\d+).(\d+)": the dots are unescaped (any character
\* but a newline) and the end is not anchored.
AllDigits(s, lo, hi) == lo <= hi /\ \A i \in lo..hi : s[i] \in DigitSet

MatchesVersionPattern(s) ==
    \E a, b, c \in 1..Len(s) :
        /\ AllDigits(s, 1, a)
        /\ a + 1 <= Len(s) /\ s[a + 1] # NL
        /\ AllDigits(s, a + 2, b)
        /\ b + 1 <= Len(s) /\ s[b + 1] # NL
        /\ AllDigits(s, b + 2, c)

ValidPlatformItem(p) ==
    /\ ClosedObject(p, {"id", "name", "manufacturer", "year"},
                       {"id", "category", "name", "manufacturer", "year"})
    /\ MatchesIdPattern(p.id) /\ Len(p.id) <= 15
    /\ Has(p, "category") => Len(p.category) <= 31
    /\ Len(p.name) <= 31
    /\ Len(p.manufacturer) <= 31

ValidPlatformArray(ps) ==
    /\ Len(ps) >= 0
    /\ Len(ps) <= 4
    /\ \A i \in 1..Len(ps) : ValidPlatformItem(ps[i])

ValidMetadataCore(c) ==
    /\ ClosedObject(c, {"author", "name", "version"},
                       {"author", "name", "description", "description_long",
                        "url", "version", "release_date"})
    /\ Len(c.author) <= 31
    /\ Len(c.name) <= 31
    /\ Has(c, "description") => Len(c.description) <= 63
    /\ Has(c, "url") => Len(c.url) <= 63
    /\ MatchesVersionPattern(c.version) /\ Len(c.version) <= 31
    /\ Has(c, "release_date") =>
           Len(c.release_date) >= 10 /\ Len(c.release_date) <= 10

ValidMetadata(m) ==
    /\ ClosedObject(m, {"platform", "core"}, {"platform", "core"})
    /\ ValidPlatformArray(m.platform)
    /\ ValidMetadataCore(m.core)

ValidCoreOptions(c) == ClosedObject(c, {}, {"sleep_supported"})

\* video.mode.items: "required", "properties" and "dependentRequired" only;
\* the item schema has no "additionalProperties" keyword.
ValidVideoMode(v) ==
    /\ {"width", "height"} \subseteq DOMAIN v
    /\ v.width >= 16 /\ v.width <= 800
    /\ v.height >= 16 /\ v.height <= 720
    /\ Has(v, "pixel_width") => v.pixel_width >= 1
    /\ Has(v, "pixel_height") => v.pixel_height >= 1
    /\ Has(v, "rotation") => v.rotation \in {0, 90, 180, 270}
    /\ Has(v, "pixel_width") => Has(v, "pixel_height")
    /\ Has(v, "pixel_height") => Has(v, "pixel_width")

ValidVideo(v) ==
    /\ ClosedObject(v, {"mode"}, {"mode"})
    /\ \A i \in 1..Len(v.mode) : ValidVideoMode(v.mode[i])

ValidEmptyObject(o) == ClosedObject(o, {}, {})

\* jsonschema.validate(self._data, ANALOGUE_TOML_SCHEMA) does not raise.
Validate(d) ==
    /\ ClosedObject(d, {"metadata", "video"},
                       {"metadata", "core", "audio", "video", "input", "interact", "data"})
    /\ ValidMetadata(d.metadata)
    /\ Has(d, "core") => ValidCoreOptions(d.core)
    /\ Has(d, "audio") => ValidEmptyObject(d.audio)
    /\ ValidVideo(d.video)
    /\ Has(d, "input") => ValidEmptyObject(d.input)
    /\ Has(d, "interact") => ValidEmptyObject(d.interact)
    /\ Has(d, "data") => ValidEmptyObject(d.data)

----------------------------------------------------------------------------
(* Metadata: the accessors over the validated document. *)

\* time.strftime("%Y-%m-%d") on day `day` of the run (day 0 is 2024-01-01)
Strftime(day) ==
    <<"2","0","2","4","-","0","1","-">> \o
    (IF day + 1 < 10 THEN <<"0">> ELSE <<>>) \o StrInt(day + 1)

metadata_core(d) == d.metadata.core

author(d) == metadata_core(d).author

name(d) == metadata_core(d).name

version(d) == metadata_core(d).version

\* self._metadata_core.get("release_date", time.strftime("%Y-%m-%d")):
\* the clock is read at every access.
release_date(d, today) ==
    IF Has(metadata_core(d), "release_date")
    THEN metadata_core(d).release_date
    ELSE Strftime(today)

\* d[k] = v on an insertion-ordered dict, kept as a sequence of [key, value]:
\* an existing key keeps its position and takes the new value.
DictSetAppend(dict, k, v) == Append(dict, [key |-> k, value |-> v])

DictSet(dict, k, v) ==
    IF \E i \in 1..Len(dict) : dict[i].key = k
    THEN [i \in 1..Len(dict) |->
             IF dict[i].key = k THEN [key |-> k, value |-> v] ELSE dict[i]]
    ELSE Append(dict, [key |-> k, value |-> v])

json_platform(p) ==
    LET base == [name |-> p.name, manufacturer |-> p.manufacturer, year |-> p.year]
    IN  IF Has(p, "category")
        THEN base @@ ("category" :> p.category)
        ELSE base

RECURSIVE PlatformJsonsFrom(_, _)
PlatformJsonsFrom(ps, dict) ==
    IF ps = <<>> THEN dict
    ELSE PlatformJsonsFrom(Tail(ps),
             DictSet(dict, Head(ps).id, [platform |-> json_platform(Head(ps))]))

platform_jsons(d) == PlatformJsonsFrom(d.metadata.platform, <<>>)

\* f"Cores/{self.author}.{self.name}"
core_directory(d) == S_Cores \o <<"/">> \o author(d) \o <<".">> \o name(d)

Min(a, b) == IF a <= b THEN a ELSE b

\* core_name[:15]
First15(s) == SubSeq(s, 1, Min(15, Len(s)))

\* f"core_{core_id}.rbf_r"
core_filename(core_id) == S_core \o <<"_">> \o StrInt(core_id) \o <<".">> \o S_rbf_r

\* the "cores" list of core.json: enumerate(self.core_names)
json_cores(names) ==
    [i \in 1..Len(names) |->
        [id |-> i - 1, name |-> First15(names[i]), filename |-> core_filename(i - 1)]]

json_core_metadata(d, today) ==
    LET mc == metadata_core(d)
        base == [platform_ids |-> [i \in 1..Len(d.metadata.platform) |->
                                      d.metadata.platform[i].id],
                 author |-> mc.author,
                 shortname |-> mc.name,
                 version |-> mc.version,
                 date_release |-> release_date(d, today)]
        with_description ==
            IF Has(mc, "description")
            THEN base @@ ("description" :> mc.description) ELSE base
    IN  IF Has(mc, "url")
        THEN with_description @@ ("url" :> mc.url) ELSE with_description

sleep_supported(d) ==
    IF Has(d, "core") /\ Has(d.core, "sleep_supported")
    THEN d.core.sleep_supported ELSE FALSE

core_json(d, names, today) ==
    [core |->
        [magic |-> S_APF_VER_1,
         metadata |-> json_core_metadata(d, today),
         framework |->
            [target_product |-> S_Analogue_Pocket,
             version_required |-> S_1_1,
             sleep_supported |-> sleep_supported(d),
             dock |-> [supported |-> TRUE, analog_output |-> FALSE],
             hardware |-> [link_port |-> FALSE, cartridge_adapter |-> -1]],
         cores |-> json_cores(names)]]

info_txt(d) ==
    IF Has(metadata_core(d), "description_long")
    THEN metadata_core(d).description_long ELSE <<>>

variants_json == [variants |-> [magic |-> S_APF_VER_1, variant_list |-> <<>>]]

RECURSIVE GCD(_, _)
\* math.gcd on non-negative integers
GCD(a, b) == IF b = 0 THEN a ELSE GCD(b, a % b)

\* fractions.Fraction(n, d) for n >= 0, d > 0: stored in lowest terms
FractionNoReduce(n, d) == [numerator |-> n, denominator |-> d]

Fraction(n, d) ==
    LET g == GCD(n, d) IN [numerator |-> n \div g, denominator |-> d \div g]

\* Fraction.__mul__: the product, in lowest terms
FractionMul(a, b) ==
    Fraction(a.numerator * b.numerator, a.denominator * b.denominator)

Get(d, k, default) == IF Has(d, k) THEN d[k] ELSE default

BoolInt(b) == IF b THEN 1 ELSE 0

\* mirror_horizontal << 1 | mirror_vertical << 0
mirror(video_mode) ==
    2 * BoolInt(Get(video_mode, "mirror_horizontal", FALSE)) +
    BoolInt(Get(video_mode, "mirror_vertical", FALSE))

aspect(video_mode) ==
    FractionMul(Fraction(video_mode.width, video_mode.height),
                Fraction(Get(video_mode, "pixel_width", 1),
                         Get(video_mode, "pixel_height", 1)))

json_scaler_mode(video_mode) ==
    [width |-> video_mode.width,
     height |-> video_mode.height,
     aspect_w |-> aspect(video_mode).numerator,
     aspect_h |-> aspect(video_mode).denominator,
     rotation |-> Get(video_mode, "rotation", 0),
     mirror |-> mirror(video_mode)]

video_json(d) ==
    [video |->
        [magic |-> S_APF_VER_1,
         scaler_modes |-> [i \in 1..Len(d.video.mode) |->
                              json_scaler_mode(d.video.mode[i])]]]

audio_json == [audio |-> [magic |-> S_APF_VER_1]]

input_json == [input |-> [magic |-> S_APF_VER_1, controllers |-> <<>>]]

interact_json ==
    [interact |-> [magic |-> S_APF_VER_1, variables |-> <<>>, messages |-> <<>>]]

data_json_NoMagic == [data |-> [data_slots |-> <<>>]]

data_json == [data |-> [magic |-> S_APF_VER_1, data_slots |-> <<>>]]

\* f"{self.author}.{self.name}_{self.version}_{self.release_date}.zip"
zip_filename(d, today) ==
    author(d) \o <<".">> \o name(d) \o <<"_">> \o version(d) \o <<"_">> \o
    release_date(d, today) \o <<".">> \o S_zip

----------------------------------------------------------------------------
(* Package.files(): the ordered (relative path, payload) entries.          *)
(* A payload's bytes are represented by the value they serialise, tagged   *)
(* by how it was serialised: json.dumps(data, indent=4).encode("ascii")    *)
(* of a manifest, str.encode("ascii") of a text, or raw bytes.  Both       *)
(* serialisations are injective on the values of the model.                *)

NoJson == [absent |-> TRUE]

dump_json(data) == [kind |-> "json", json |-> data, text |-> <<>>, bytes |-> <<>>]

encode_ascii(s) == [kind |-> "text", json |-> NoJson, text |-> s, bytes |-> <<>>]

raw_bytes(b) == [kind |-> "bytes", json |-> NoJson, text |-> <<>>, bytes |-> b]

Pow2(n) == 2 ^ n

\* b.__format__("08b") for 0 <= b <= 255: eight binary digits, most significant first
Format08b(b) ==
    [i \in 1..8 |-> IF (b \div Pow2(8 - i)) % 2 = 1 THEN "1" ELSE "0"]

\* s[::-1]
Reversed(s) == [i \in 1..Len(s) |-> s[Len(s) + 1 - i]]

RECURSIVE IntBase2(_)
\* int(s, 2)
IntBase2(s) ==
    IF s = <<>> THEN 0
    ELSE 2 * IntBase2(SubSeq(s, 1, Len(s) - 1)) + (IF s[Len(s)] = "1" THEN 1 ELSE 0)

ReverseByteIdentity(b) == b

ReverseByte(b) == IntBase2(Reversed(Format08b(b)))

\* bytes(int(b.__format__("08b")[::-1], 2) for b in core_bytes)
core_bytes_reversed(core_bytes) ==
    [k \in 1..Len(core_bytes) |-> ReverseByte(core_bytes[k])]

Entry(path, data) == [path |-> path, data |-> data]

\* f"Platforms/{platform_id}.json"
platform_path(platform_id) ==
    S_Platforms \o <<"/">> \o platform_id \o <<".">> \o S_json

\* f"{core_dir}/{stem}.json"
core_dir_json_path(d, stem) ==
    core_directory(d) \o <<"/">> \o stem \o <<".">> \o S_json

PlatformEntries(d) ==
    [i \in 1..Len(platform_jsons(d)) |->
        Entry(platform_path(platform_jsons(d)[i].key),
              dump_json(platform_jsons(d)[i].value))]

InfoEntriesAlways(d) ==
    << Entry(core_directory(d) \o <<"/">> \o S_info_txt, encode_ascii(info_txt(d))) >>

\* info_txt = self.metadata.info_txt; if info_txt: yield ...
InfoEntries(d) ==
    IF info_txt(d) # <<>>
    THEN << Entry(core_directory(d) \o <<"/">> \o S_info_txt, encode_ascii(info_txt(d))) >>
    ELSE <<>>

CoreEntries(d, cs) ==
    [i \in 1..Len(cs) |->
        Entry(core_directory(d) \o <<"/">> \o core_filename(i - 1),
              raw_bytes(core_bytes_reversed(cs[i].data)))]

\* The entries files() yields, in order.  Every entry is computed when the
\* generator is resumed for it; `today` is the clock at that moment (only
\* core.json reads it, through release_date).
Files(d, names, cs, today) ==
    PlatformEntries(d)
    \o << Entry(core_dir_json_path(d, S_core), dump_json(core_json(d, names, today))) >>
    \o InfoEntries(d)
    \o << Entry(core_dir_json_path(d, S_video), dump_json(video_json(d))),
          Entry(core_dir_json_path(d, S_audio), dump_json(audio_json)),
          Entry(core_dir_json_path(d, S_input), dump_json(input_json)),
          Entry(core_dir_json_path(d, S_interact), dump_json(interact_json)),
          Entry(core_dir_json_path(d, S_data), dump_json(data_json)),
          Entry(core_dir_json_path(d, S_variants), dump_json(variants_json)) >>
    \o CoreEntries(d, cs)

----------------------------------------------------------------------------
(* Paths on the file system: Path(root) / filename, mkdir(parents=True),   *)
(* open(full_filename, "wb").                                              *)

RECURSIVE SplitFrom(_, _, _)
\* s.split("/"), left to right; `cur` is the component being read
SplitFrom(s, cur, acc) ==
    IF s = <<>> THEN Append(acc, cur)
    ELSE IF Head(s) = "/" THEN SplitFrom(Tail(s), <<>>, Append(acc, cur))
    ELSE SplitFrom(Tail(s), Append(cur, Head(s)), acc)

Split(s) == SplitFrom(s, <<>>, <<>>)

\* pathlib drops empty and "." components and keeps ".."
PathParts(s) == SelectSeq(Split(s), LAMBDA c : c # <<>> /\ c # <<".">>)

RECURSIVE ResolveFrom(_, _)
\* the kernel's walk from root: ".." leaves the directory just entered
\* (the directories exist: mkdir(parents=True) has made them)
ResolveFrom(parts, stack) ==
    IF parts = <<>> THEN stack
    ELSE IF Head(parts) = <<".", ".">> /\ stack # <<>> /\ stack[Len(stack)] # <<".", ".">>
         THEN ResolveFrom(Tail(parts), SubSeq(stack, 1, Len(stack) - 1))
    ELSE ResolveFrom(Tail(parts), Append(stack, Head(parts)))

\* the file a relative path names under root, as components from root
FsResolve(filename) == ResolveFrom(PathParts(filename), <<>>)

\* open(..., "wb") and write: the file is created or replaced
TreeWrite(t, filename, data) ==
    {e \in t : e[1] # FsResolve(filename)} \cup {<<FsResolve(filename), data>>}

\* The directory the zip file is opened in exists: root holds no
\* subdirectory yet, so it is root itself or a directory above it.
ZipDirExists(zipname) ==
    LET parts == FsResolve(zipname)
    IN  \A i \in 1..(Len(parts) - 1) : parts[i] = <<".", ".">>

NoArchive == [state |-> "none", name |-> <<>>, members |-> <<>>]

----------------------------------------------------------------------------
(* The inputs of a run: analogue.toml documents, core names, core images. *)

PlatA == [id |-> <<"a">>, name |-> <<"A">>, manufacturer |-> <<"M">>, year |-> 1989]
PlatB == [id |-> <<"b">>, name |-> <<"B">>, manufacturer |-> <<"M">>, year |-> 1990,
          category |-> <<"c">>]
\* a second platform entry with the id of PlatA
PlatA2 == [id |-> <<"a">>, name |-> <<"Z">>, manufacturer |-> <<"N">>, year |-> 2001]
PlatCore == [id |-> S_core, name |-> <<"C">>, manufacturer |-> <<"M">>, year |-> 1991]
PlatUpper == [id |-> <<"A">>, name |-> <<"A">>, manufacturer |-> <<"M">>, year |-> 1989]
PlatLongId == [id |-> Repeat(<<"a">>, 16), name |-> <<"A">>, manufacturer |-> <<"M">>,
               year |-> 1989]
PlatUnknownKey == PlatA @@ ("bogus" :> 1)
PlatNoYear == [id |-> <<"a">>, name |-> <<"A">>, manufacturer |-> <<"M">>]

ValidPlatformLists ==
    { <<>>, <<PlatA>>, <<PlatA, PlatB>>, <<PlatA, PlatA2>>,
      <<PlatA, PlatB, PlatA2, PlatCore>>, <<PlatCore, PlatB>> }

InvalidPlatformLists ==
    { <<PlatA, PlatB, PlatA, PlatB, PlatA>>, <<PlatUpper>>, <<PlatLongId>>,
      <<PlatUnknownKey>>, <<PlatNoYear>> }

S_version == <<"1",".","0",".","2">>
S_date == <<"2","0","2","3","-","0","5","-","0","6">>

McBase == [author |-> <<"x">>, name |-> <<"y">>, version |-> S_version,
           release_date |-> S_date]
McNoDate == [author |-> <<"x">>, name |-> <<"y">>, version |-> S_version \o <<"-","r","c">>,
             description |-> <<"d">>, url |-> <<"u",":","v">>,
             description_long |-> <<"h","i">>]
McEmptyInfo == McBase @@ ("description_long" :> <<>>)
\* core_directory leaves Cores/ for Platforms/
McTraversal == [author |-> <<>>, name |-> <<"/",".",".","/">> \o S_Platforms,
                version |-> S_version, release_date |-> S_date,
                description_long |-> <<"h","i">>]
\* zip_filename names a directory that does not exist
McSlash == [author |-> <<"a","/","b">>, name |-> <<"y">>, version |-> S_version,
            release_date |-> S_date]
McBadVersion == [author |-> <<"x">>, name |-> <<"y">>, version |-> <<"1",".","0">>]
McNoVersion == [author |-> <<"x">>, name |-> <<"y">>]
McUnknownKey == McBase @@ ("bogus" :> 1)
McShortDate == [author |-> <<"x">>, name |-> <<"y">>, version |-> S_version,
                release_date |-> SubSeq(S_date, 1, 9)]
McLongAuthor == [author |-> Repeat(<<"x">>, 32), name |-> <<"y">>, version |-> S_version]

ValidMetaCores == {McBase, McNoDate, McEmptyInfo, McTraversal, McSlash}

InvalidMetaCores == {McBadVersion, McNoVersion, McUnknownKey, McShortDate, McLongAuthor}

ModeSnes == [width |-> 256, height |-> 224, pixel_width |-> 8, pixel_height |-> 7]
ModeMin == [width |-> 16, height |-> 16]
ModeMax == [width |-> 800, height |-> 720, rotation |-> 90,
            mirror_horizontal |-> TRUE, mirror_vertical |-> FALSE,
            pixel_width |-> 2, pixel_height |-> 4]
ModeUnknownKey == [width |-> 320, height |-> 240, mirror_vertical |-> TRUE, bogus |-> 1]

VideoOf(modes) == [mode |-> modes]

ValidVideos ==
    { VideoOf(<<ModeSnes>>), VideoOf(<<ModeMin, ModeMax>>), VideoOf(<<>>),
      VideoOf(<<ModeUnknownKey>>) }

InvalidVideos ==
    { VideoOf(<<[width |-> 900, height |-> 224]>>),
      VideoOf(<<[width |-> 256, height |-> 15]>>),
      VideoOf(<<[width |-> 256]>>),
      VideoOf(<<[width |-> 256, height |-> 224, pixel_width |-> 8]>>),
      VideoOf(<<[width |-> 256, height |-> 224, pixel_width |-> 0, pixel_height |-> 1]>>),
      VideoOf(<<[width |-> 256, height |-> 224, rotation |-> 45]>>),
      [mode |-> <<ModeSnes>>, bogus |-> 1],
      [bogus |-> 1] }

EmptyTable == <<>>
UnknownKeyTable == [bogus |-> 1]

\* the optional top-level tables
ValidOptions ==
    { EmptyTable,
      [core |-> [sleep_supported |-> TRUE], audio |-> EmptyTable, input |-> EmptyTable,
       interact |-> EmptyTable, data |-> EmptyTable] }

InvalidOptions ==
    { [bogus |-> 1],
      [core |-> UnknownKeyTable], [audio |-> UnknownKeyTable], [input |-> UnknownKeyTable],
      [interact |-> UnknownKeyTable], [data |-> UnknownKeyTable] }

Document(platforms, mc, video, options) ==
    [metadata |-> [platform |-> platforms, core |-> mc], video |-> video] @@ options

BaseDocument == Document(<<PlatA>>, McBase, VideoOf(<<ModeSnes>>), EmptyTable)

Documents ==
    { Document(pl, mc, VideoOf(<<ModeSnes>>), EmptyTable) :
        pl \in ValidPlatformLists, mc \in ValidMetaCores }
    \cup { Document(<<PlatA>>, McNoDate, vd, opt) :
        vd \in ValidVideos, opt \in ValidOptions }
    \cup { Document(pl, McBase, VideoOf(<<ModeSnes>>), EmptyTable) : pl \in InvalidPlatformLists }
    \cup { Document(<<PlatA>>, mc, VideoOf(<<ModeSnes>>), EmptyTable) : mc \in InvalidMetaCores }
    \cup { Document(<<PlatA>>, McBase, vd, EmptyTable) : vd \in InvalidVideos }
    \cup { Document(<<PlatA>>, McBase, VideoOf(<<ModeSnes>>), opt) : opt \in InvalidOptions }
    \cup { [metadata |-> [platform |-> <<PlatA>>, core |-> McBase]],
           [video |-> VideoOf(<<ModeSnes>>)],
           [metadata |-> [platform |-> <<PlatA>>, core |-> McBase, bogus |-> 1],
            video |-> VideoOf(<<ModeSnes>>)],
           [metadata |-> [core |-> McBase], video |-> VideoOf(<<ModeSnes>>)] }

\* core images, in the order of the supplied dict
SampleCores ==
    << [name |-> <<"c">>, data |-> <<128, 1>>],
       [name |-> <<"d">>, data |-> <<>>],
       [name |-> <<"e">>, data |-> <<6>>],
       [name |-> <<"f">>, data |-> <<255, 0, 77>>] >>

SampleNames == << <<"c">>, Repeat(<<"n">>, 16), <<"e">>, <<"f">> >>

CoreDicts == { SubSeq(SampleCores, 1, n) : n \in 0..MaxCores }

CoreNameLists == { SubSeq(SampleNames, 1, n) : n \in 0..MaxCores }

----------------------------------------------------------------------------
(* The program: construct Metadata, construct Package, write_files and     *)
(* write_zip_file (each once, in either order), while the clock runs.      *)

Init ==
    /\ doc \in Documents
    /\ core_names \in CoreNameLists
    /\ cores \in CoreDicts
    /\ clock = 0
    /\ phase = "start"
    /\ op = "idle"
    /\ pos = 0
    /\ yielded = <<>>
    /\ tree = {}
    /\ archive = NoArchive
    /\ done = {}

RaisesNever(d) == FALSE

\* jsonschema.validate raises, and Metadata.__init__ raises ValidationError
Raises(d) == ~Validate(d)

\* Metadata(toml_filename, core_names)
MetadataInit ==
    /\ phase = "start"
    /\ phase' = IF Raises(doc) THEN "failed" ELSE "metadata"
    /\ UNCHANGED <<doc, core_names, cores, clock, op, pos, yielded, tree, archive, done>>

\* Package(metadata, cores)
PackageInit ==
    /\ phase = "metadata"
    /\ phase' = "package"
    /\ UNCHANGED <<doc, core_names, cores, clock, op, pos, yielded, tree, archive, done>>

\* the entries of the traversal of files() that is running
CurrentFiles == Files(doc, core_names, cores, clock)

\* write_files(root) is called: self.files() makes the generator
WriteFilesCall ==
    /\ phase = "package" /\ op = "idle" /\ "write_files" \notin done
    /\ op' = "write_files"
    /\ pos' = 0
    /\ yielded' = <<>>
    /\ UNCHANGED <<doc, core_names, cores, clock, phase, tree, archive, done>>

\* one iteration of the loop of write_files: the generator yields its next
\* entry, the parent directories are made, the file is written
WriteFilesStep ==
    /\ op = "write_files" /\ pos < Len(CurrentFiles)
    /\ LET e == CurrentFiles[pos + 1]
       IN  /\ yielded' = Append(yielded, e)
           /\ tree' = TreeWrite(tree, e.path, e.data)
    /\ pos' = pos + 1
    /\ UNCHANGED <<doc, core_names, cores, clock, phase, op, archive, done>>

\* the generator is exhausted: write_files returns
WriteFilesReturn ==
    /\ op = "write_files" /\ pos = Len(CurrentFiles)
    /\ op' = "idle"
    /\ done' = done \cup {"write_files"}
    /\ UNCHANGED <<doc, core_names, cores, clock, phase, pos, yielded, tree, archive>>

\* write_zip_file(root) is called: zip_filename is read and the archive is
\* opened for writing; open() raises when the name leads into a directory
\* that does not exist
WriteZipFileCall ==
    /\ phase = "package" /\ op = "idle"
    /\ "write_zip_file" \notin done /\ "write_zip_file raised" \notin done
    /\ IF ZipDirExists(zip_filename(doc, clock))
       THEN /\ archive' = [state |-> "open", name |-> zip_filename(doc, clock),
                           members |-> <<>>]
            /\ op' = "write_zip_file"
            /\ pos' = 0
            /\ yielded' = <<>>
            /\ done' = done
       ELSE /\ done' = done \cup {"write_zip_file raised"}
            /\ UNCHANGED <<archive, op, pos, yielded>>
    /\ UNCHANGED <<doc, core_names, cores, clock, phase, tree>>

\* one iteration of the loop of write_zip_file:
\* archive.writestr(zipfile.ZipInfo(filename), data)
WriteZipFileStep ==
    /\ op = "write_zip_file" /\ pos < Len(CurrentFiles)
    /\ LET e == CurrentFiles[pos + 1]
       IN  /\ yielded' = Append(yielded, e)
           /\ archive' = [archive EXCEPT !.members = Append(@, e)]
    /\ pos' = pos + 1
    /\ UNCHANGED <<doc, core_names, cores, clock, phase, op, tree, done>>

\* the with block is left: the archive is closed, write_zip_file returns
WriteZipFileReturn ==
    /\ op = "write_zip_file" /\ pos = Len(CurrentFiles)
    /\ archive' = [archive EXCEPT !.state = "closed"]
    /\ op' = "idle"
    /\ done' = done \cup {"write_zip_file"}
    /\ UNCHANGED <<doc, core_names, cores, clock, phase, pos, yielded, tree>>

\* midnight passes
Tick ==
    /\ clock < MaxDays
    /\ clock' = clock + 1
    /\ UNCHANGED <<doc, core_names, cores, phase, op, pos, yielded, tree, archive, done>>

Next ==
    \/ MetadataInit
    \/ PackageInit
    \/ WriteFilesCall
    \/ WriteFilesStep
    \/ WriteFilesReturn
    \/ WriteZipFileCall
    \/ WriteZipFileStep
    \/ WriteZipFileReturn
    \/ Tick

Spec == Init /\ [][Next]_vars

----------------------------------------------------------------------------
(* Two more sets of runs of the same program: every byte value as core     *)
(* image content, and a grid of video modes.                               *)

EncodeImages ==
    { <<>> } \cup { <<b>> : b \in 0..255 } \cup { <<b, 255 - b>> : b \in 0..255 }

InitEncode ==
    /\ doc = BaseDocument
    /\ core_names = << <<"c">> >>
    /\ cores \in { << [name |-> <<"c">>, data |-> image] >> : image \in EncodeImages }
    /\ clock = 0
    /\ phase = "start"
    /\ op = "idle"
    /\ pos = 0
    /\ yielded = <<>>
    /\ tree = {}
    /\ archive = NoArchive
    /\ done = {}

SpecEncode == InitEncode /\ [][Next]_vars

PixelSamples == { <<1, 1>>, <<8, 7>>, <<4, 6>>, <<3, 1000>> }

GridModes ==
    { [width |-> w, height |-> h] : w \in {16, 256, 320, 800}, h \in {16, 224, 240, 720} }
    \cup { [width |-> w, height |-> h, pixel_width |-> px[1], pixel_height |-> px[2]] :
             w \in {16, 256, 320, 800}, h \in {16, 224, 240, 720}, px \in PixelSamples }

InitVideo ==
    /\ doc \in { Document(<<PlatA>>, McBase, VideoOf(modes), EmptyTable) :
                   modes \in { <<m>> : m \in GridModes }
                             \cup { <<ModeSnes, m>> : m \in {ModeMin, ModeMax} } }
    /\ core_names = <<>>
    /\ cores = <<>>
    /\ clock = 0
    /\ phase = "start"
    /\ op = "idle"
    /\ pos = 0
    /\ yielded = <<>>
    /\ tree = {}
    /\ archive = NoArchive
    /\ done = {}

SpecVideo == InitVideo /\ [][Next]_vars

----------------------------------------------------------------------------
(* Properties.                                                             *)

\* a method has returned and none is running: `yielded` is a whole traversal
Returned == op = "idle" /\ done \cap {"write_files", "write_zip_file"} # {}

PathsOf(entries) == [i \in 1..Len(entries) |-> entries[i].path]

IsPrefix(s, t) == Len(s) <= Len(t) /\ SubSeq(t, 1, Len(s)) = s

NoRepeat(s) == \A i, j \in 1..Len(s) : i # j => s[i] # s[j]

PlatformIds(d) == [i \in 1..Len(d.metadata.platform) |-> d.metadata.platform[i].id]

RECURSIVE FirstOccurrencesFrom(_, _)
FirstOccurrencesFrom(ids, seen) ==
    IF ids = <<>> THEN seen
    ELSE IF \E i \in 1..Len(seen) : seen[i] = Head(ids)
         THEN FirstOccurrencesFrom(Tail(ids), seen)
    ELSE FirstOccurrencesFrom(Tail(ids), Append(seen, Head(ids)))

\* the distinct ids of a list, in the order of their first occurrence
FirstOccurrences(ids) == FirstOccurrencesFrom(ids, <<>>)

InCoreDir(d, file) == core_directory(d) \o <<"/">> \o file

JsonFile(stem) == stem \o <<".">> \o S_json

HasLongDescription(d) ==
    Has(d.metadata.core, "description_long") /\ d.metadata.core.description_long # <<>>

\* the paths after the Platforms/ entries, as the packaging contract lists them
ExpectedCorePaths(d, n) ==
    << InCoreDir(d, JsonFile(S_core)) >>
    \o (IF HasLongDescription(d) THEN << InCoreDir(d, S_info_txt) >> ELSE <<>>)
    \o << InCoreDir(d, JsonFile(S_video)), InCoreDir(d, JsonFile(S_audio)),
          InCoreDir(d, JsonFile(S_input)), InCoreDir(d, JsonFile(S_interact)),
          InCoreDir(d, JsonFile(S_data)), InCoreDir(d, JsonFile(S_variants)) >>
    \o [i \in 1..n |-> InCoreDir(d, S_core \o <<"_">> \o StrInt(i - 1) \o <<".">> \o S_rbf_r)]

PlatformPathsOf(ids) ==
    [i \in 1..Len(ids) |-> S_Platforms \o <<"/">> \o ids[i] \o <<".">> \o S_json]

\* C1 as stated: one Platforms/{id}.json per platform entry, in document order
ExpectedPathsPerPlatform(d, n) ==
    PlatformPathsOf(PlatformIds(d)) \o ExpectedCorePaths(d, n)

\* C1 as amended: one Platforms/{id}.json per distinct platform id
ExpectedPathsPerId(d, n) ==
    PlatformPathsOf(FirstOccurrences(PlatformIds(d))) \o ExpectedCorePaths(d, n)

IsCoreImageEntry(e) == e.data.kind = "bytes"

IsCoreJsonEntry(e) == e.data.kind = "json" /\ DOMAIN e.data.json = {"core"}

RbfName(i) == S_core \o <<"_">> \o StrInt(i) \o <<".">> \o S_rbf_r

\* C2: a package built from N core images yields exactly N entries
\* core_0.rbf_r .. core_{N-1}.rbf_r, and the cores array of the emitted
\* core.json has length N with id = i and filename = core_{i}.rbf_r at index i,
\* so that core.json lists exactly the emitted core files.
C2_CoreJsonListsEmittedCores ==
    Returned =>
        LET images == SelectSeq(yielded, IsCoreImageEntry)
            listed == SelectSeq(yielded, IsCoreJsonEntry)[1].data.json.core.cores
        IN  /\ Len(images) = Len(cores)
            /\ \A i \in 1..Len(images) : images[i].path = InCoreDir(doc, RbfName(i - 1))
            /\ Len(listed) = Len(cores)
            /\ \A i \in 1..Len(listed) :
                   listed[i].id = i - 1 /\ listed[i].filename = RbfName(i - 1)
            /\ { InCoreDir(doc, listed[i].filename) : i \in 1..Len(listed) }
                   = { images[i].path : i \in 1..Len(images) }

NothingProduced ==
    yielded = <<>> /\ tree = {} /\ archive = NoArchive /\ done = {}

\* C3: a document that violates the schema makes Metadata's construction
\* raise ValidationError, after which there is no Metadata, no Package and no
\* output of either method; and once an entry has been generated or written,
\* no ValidationError is raised any more.
C3_ValidationBeforeAnyOutput ==
    /\ [](~Validate(doc) => phase \in {"start", "failed"} /\ NothingProduced)
    /\ [](phase = "failed" => ~Validate(doc))
    /\ [][~NothingProduced => phase' # "failed"]_vars

\* the construction of Metadata has raised ValidationError on a document
\* with more than four platforms
C3_Witness ==
    /\ phase = "failed"
    /\ Has(doc, "metadata") /\ Has(doc.metadata, "platform")
    /\ Len(doc.metadata.platform) = 5
    /\ NothingProduced

TreePaths == { e[1] : e \in tree }

Members == { archive.members[i] : i \in 1..Len(archive.members) }

\* C4: with release_date supplied, write_files into an empty root and
\* write_zip_file produce the same set of relative paths (compared as the
\* files they name), and every file of the loose tree has the content of the
\* archive member of that name.
C4_TreeEqualsArchive ==
    ({"write_files", "write_zip_file"} \subseteq done
        /\ Has(doc.metadata.core, "release_date")) =>
        /\ TreePaths = { FsResolve(m.path) : m \in Members }
        /\ \A m \in Members : <<FsResolve(m.path), m.data>> \in tree

ReleaseDatesWritten ==
    { e[2].json.core.metadata.date_release :
        e \in { f \in tree : f[2].kind = "json" /\ DOMAIN f[2].json = {"core"} } }
    \cup { m.data.json.core.metadata.date_release :
        m \in { n \in Members : IsCoreJsonEntry(n) } }

\* C10: with release_date omitted, the date_release written into core.json by
\* either method and the date in the name of the zip file are one and the
\* same string, whatever the clock does between the reads.
C10_OneReleaseDate ==
    (phase = "package" /\ ~Has(doc.metadata.core, "release_date")) =>
        /\ Cardinality(ReleaseDatesWritten) <= 1
        /\ archive.state # "none" =>
               \A date \in ReleaseDatesWritten :
                   archive.name = author(doc) \o <<".">> \o name(doc) \o <<"_">>
                                  \o version(doc) \o <<"_">> \o date \o <<".">> \o S_zip


Bit(b, j) == (b \div Pow2(j)) % 2

CoreImagesYielded == SelectSeq(yielded, IsCoreImageEntry)

\* C5: the content emitted for a core image has the length of the image, bit
\* j of its byte k is bit 7-j of byte k of the image, and transforming it once
\* more gives the image back.
C5_BitReversal ==
    \A i \in 1..Len(CoreImagesYielded) :
        LET x == cores[i].data
            y == CoreImagesYielded[i].data.bytes
        IN  /\ Len(y) = Len(x)
            /\ \A k \in 1..Len(x) : \A j \in 0..7 : Bit(y[k], j) = Bit(x[k], 7 - j)
            /\ core_bytes_reversed(y) = x

\* the image <<128, 127>> has been emitted as <<1, 254>>
C5_Witness ==
    /\ Len(CoreImagesYielded) = 1
    /\ cores[1].data = <<128, 127>>
    /\ CoreImagesYielded[1].data.bytes = <<1, 254>>

IsPlatformEntry(e) == IsPrefix(S_Platforms \o <<"/">>, e.path)

PlatformsYielded == SelectSeq(yielded, IsPlatformEntry)

CoreJsonYielded == SelectSeq(yielded, IsCoreJsonEntry)

\* name, manufacturer, year, and category only if supplied
Carries(json, p) ==
    /\ DOMAIN json = {"platform"}
    /\ DOMAIN json.platform = DOMAIN p \ {"id"}
    /\ \A k \in DOMAIN json.platform : json.platform[k] = p[k]

LastWithId(ps, id) ==
    ps[CHOOSE i \in 1..Len(ps) :
          ps[i].id = id /\ \A j \in (i + 1)..Len(ps) : ps[j].id # id]

\* C6 (original statement): files() yields one Platforms/{id}.json per
\* element of metadata.platform, the k-th carrying the fields of the k-th
\* platform, and platform_ids of core.json names exactly these entries in the
\* same order, also when two platforms have the same id.
C6_OneEntryPerPlatform ==
    Returned =>
        LET ps == doc.metadata.platform
        IN  /\ Len(PlatformsYielded) = Len(ps)
            /\ \A k \in 1..Len(PlatformsYielded) :
                   /\ k <= Len(ps)
                   /\ PlatformsYielded[k].path = PlatformPathsOf(PlatformIds(doc))[k]
                   /\ Carries(PlatformsYielded[k].data.json, ps[k])
            /\ PlatformPathsOf(CoreJsonYielded[1].data.json.core.metadata.platform_ids)
                   = PathsOf(PlatformsYielded)

\* C6 (amended): files() yields one Platforms/{id}.json per distinct id of
\* metadata.platform, in the order in which the ids first occur, each
\* carrying the fields of the last platform with that id; platform_ids of
\* core.json lists the id of every platform in document order (a repeated id
\* repeatedly), so that it names every one of these entries and nothing else.
C6_OneEntryPerDistinctId ==
    Returned =>
        LET ps == doc.metadata.platform
            ids == FirstOccurrences(PlatformIds(doc))
            listed == CoreJsonYielded[1].data.json.core.metadata.platform_ids
        IN  /\ Len(ps) <= 4
            /\ Len(PlatformsYielded) = Len(ids)
            /\ \A k \in 1..Len(ids) :
                   /\ PlatformsYielded[k].path = PlatformPathsOf(ids)[k]
                   /\ Carries(PlatformsYielded[k].data.json, LastWithId(ps, ids[k]))
            /\ listed = PlatformIds(doc)
            /\ { PlatformPathsOf(listed)[i] : i \in 1..Len(listed) }
                   = { PlatformsYielded[k].path : k \in 1..Len(PlatformsYielded) }

\* a whole traversal of a document whose first and third platforms share an id
C6_Witness ==
    /\ Returned
    /\ doc.metadata.platform = <<PlatA, PlatB, PlatA2, PlatCore>>
    /\ Len(PlatformsYielded) = 3
    /\ PlatformsYielded[1].data.json.platform.name = <<"Z">>

UnknownKeys(d, declared) == DOMAIN d \ declared

\* a key the schema does not declare, at one of the described object levels
HasUnknownKey(d) ==
    \/ UnknownKeys(d, {"metadata", "core", "audio", "video", "input", "interact", "data"}) # {}
    \/ \E t \in {"audio", "input", "interact", "data"} : Has(d, t) /\ DOMAIN d[t] # {}
    \/ Has(d, "core") /\ UnknownKeys(d.core, {"sleep_supported"}) # {}
    \/ Has(d, "metadata") /\ UnknownKeys(d.metadata, {"platform", "core"}) # {}
    \/ Has(d, "metadata") /\ Has(d.metadata, "platform") /\
           \E i \in 1..Len(d.metadata.platform) :
               UnknownKeys(d.metadata.platform[i],
                           {"id", "category", "name", "manufacturer", "year"}) # {}
    \/ Has(d, "metadata") /\ Has(d.metadata, "core") /\
           UnknownKeys(d.metadata.core,
                       {"author", "name", "description", "description_long", "url",
                        "version", "release_date"}) # {}
    \/ Has(d, "video") /\ UnknownKeys(d.video, {"mode"}) # {}
    \/ Has(d, "video") /\ Has(d.video, "mode") /\
           \E i \in 1..Len(d.video.mode) :
               UnknownKeys(d.video.mode[i],
                           {"width", "height", "pixel_width", "pixel_height", "rotation",
                            "mirror_horizontal", "mirror_vertical", "configuration"}) # {}

\* C7: a document with a key the schema does not declare, at any described
\* object level, is rejected with ValidationError and never accepted.
C7_UnknownKeyRejected ==
    HasUnknownKey(doc) => phase \in {"start", "failed"}


EndsWith(s, suffix) ==
    Len(suffix) <= Len(s) /\ SubSeq(s, Len(s) - Len(suffix) + 1, Len(s)) = suffix

IsFile(path, stem) == EndsWith(path, <<"/">> \o JsonFile(stem))

\* the manifest a .json path is the file of
ManifestName(path) ==
    IF IsPrefix(S_Platforms \o <<"/">>, path) THEN "platform"
    ELSE IF IsFile(path, S_core) THEN "core"
    ELSE IF IsFile(path, S_video) THEN "video"
    ELSE IF IsFile(path, S_audio) THEN "audio"
    ELSE IF IsFile(path, S_input) THEN "input"
    ELSE IF IsFile(path, S_interact) THEN "interact"
    ELSE IF IsFile(path, S_data) THEN "data"
    ELSE IF IsFile(path, S_variants) THEN "variants"
    ELSE "none"

KeyedByName(e) == DOMAIN e.data.json = {ManifestName(e.path)}

HasMagic(e) ==
    /\ Has(e.data.json[ManifestName(e.path)], "magic")
    /\ e.data.json[ManifestName(e.path)].magic = S_APF_VER_1

JsonYielded == SelectSeq(yielded, LAMBDA e : e.data.kind = "json")

VideoJsonYielded ==
    SelectSeq(yielded, LAMBDA e : e.data.kind = "json" /\ DOMAIN e.data.json = {"video"})

\* C9: per validated video mode, (aspect_w, aspect_h) is (width/height) x
\* (pixel_width/pixel_height) in lowest terms, the pixel being 1/1 when absent:
\* aspect_w * height * pixel_height = aspect_h * width * pixel_width,
\* gcd(aspect_w, aspect_h) = 1, aspect_h > 0; scaler_modes has one element per
\* video mode, in document order.
C9_AspectIsReducedFraction ==
    \A n \in 1..Len(VideoJsonYielded) :
        LET modes == doc.video.mode
            out == VideoJsonYielded[n].data.json.video.scaler_modes
        IN  /\ Len(out) = Len(modes)
            /\ \A i \in 1..Len(modes) :
                   LET pw == IF Has(modes[i], "pixel_width") THEN modes[i].pixel_width ELSE 1
                       ph == IF Has(modes[i], "pixel_height") THEN modes[i].pixel_height ELSE 1
                   IN  /\ out[i].width = modes[i].width
                       /\ out[i].height = modes[i].height
                       /\ out[i].aspect_w * modes[i].height * ph
                              = out[i].aspect_h * modes[i].width * pw
                       /\ \A k \in 2..Min(out[i].aspect_w, out[i].aspect_h) :
                              out[i].aspect_w % k # 0 \/ out[i].aspect_h % k # 0
                       /\ out[i].aspect_h > 0

\* 256x224 with 8:7 pixels has been emitted as 64/49
C9_Witness ==
    /\ Len(VideoJsonYielded) = 1
    /\ doc.video.mode = <<ModeSnes, ModeMax>>
    /\ VideoJsonYielded[1].data.json.video.scaler_modes[1].aspect_w = 64
    /\ VideoJsonYielded[1].data.json.video.scaler_modes[1].aspect_h = 49
    /\ VideoJsonYielded[1].data.json.video.scaler_modes[2].aspect_w = 5
    /\ VideoJsonYielded[1].data.json.video.scaler_modes[2].aspect_h = 9

====
